---- MODULE Spec2Model ----
(***************************************************************************)
(* Model of com.redhat.logging (src/src/main.c): a varlink service that    *)
(* exposes the systemd journal.  One epoll loop serves the varlink service *)
(* descriptor, a signalfd and one journal descriptor per streaming Monitor. *)
(*                                                                         *)
(* Journal records are identified by their sequence number 1, 2, 3, ...;   *)
(* the cursor string of record i is modelled by i and a NULL cursor by 0.   *)
(* The journal currently holds the records base+1 .. top: journald appends  *)
(* at the top and vacuuming removes the oldest record.                      *)
(*                                                                         *)
(* sd-journal read pointer (as documented in sd_journal_seek_tail(3),       *)
(* sd_journal_seek_cursor(3), sd_journal_next(3)): a seek does not make any *)
(* entry current; the following sd_journal_next()/previous() does.          *)
(*   [type |-> "tail",     at |-> t]  after seek_tail: behind record t      *)
(*   [type |-> "seek",     at |-> c]  after seek_cursor(c)                  *)
(*   [type |-> "discrete", at |-> i]  record i is the current entry         *)
(***************************************************************************)
EXTENDS Integers, Sequences, FiniteSets, TLC

\* ---- bounds of the model ------------------------------------------------
MaxCalls == 1
MaxRecords == 2
MaxLines == 1
MaxLevel == 8

\* ---- program constants --------------------------------------------------
VARLINK_ERROR_PANIC == 1
ERROR_PANIC == 1
EXIT_SUCCESS == 0
EIO == 5
ENOENT == 2
EINVAL == 22
SIGINT == 2
SIGTERM == 15
SIGHUP == 1
DefaultLines == 10

Calls == 1..MaxCalls

\* initial_lines values a client can send; DefaultLines stands for an absent
\* parameter
Lines == (-1..MaxLines) \cup {DefaultLines}

Events == {"SD_JOURNAL_NOP", "SD_JOURNAL_APPEND", "SD_JOURNAL_INVALIDATE"}

\* the call of journal_read_next_entry that fails: sd_journal_next,
\* sd_journal_get_cursor, sd_journal_get_realtime_usec, gmtime_r, the MESSAGE
\* field, the PRIORITY field
ReadFails == {"next", "entry_cursor", "realtime", "gmtime", "message", "priority"}

\* the step of the Monitor method, or of monitor_dispatch, that fails
Fails == {"none", "open", "add", "seek", "skip", "cursor", "reply"} \cup ReadFails

DispatchFails == {"none", "seek", "cursor", "reply"} \cup ReadFails

VARIABLES
    top,        \* sequence number of the newest record journald has written
    base,       \* the records 1..base have been vacuumed away
    monitor,    \* Monitor objects, one slot per call
    call,       \* VarlinkCall objects: references, callback, replies sent
    epoll,      \* tags registered with epoll_fd
    status,     \* "running" or "exited"
    exitcode,   \* return value of main once exited
    hist,       \* per call: frees, EPOLL_CTL_DELs and order of the teardown
    last,       \* what the most recent step did
    record,     \* the fields of the journal record the reader stands on
    entry       \* the result of journal_read_next_entry for that record

vars == <<top, base, monitor, call, epoll, status, exitcode, hist, last, record, entry>>

Min(a, b) == IF a < b THEN a ELSE b

SetMin(S) == CHOOSE x \in S : \A y \in S : x <= y

SetMax(S) == CHOOSE x \in S : \A y \in S : x >= y

Last(s) == s[Len(s)]

\* records the journal can currently return
Available == (base + 1)..top

\* ---- sd-journal ---------------------------------------------------------
NoLoc == [type |-> "none", at |-> 0]

sd_journal_seek_head(loc) == [type |-> "seek", at |-> 0]

sd_journal_seek_tail(loc) == [type |-> "tail", at |-> top]

sd_journal_seek_cursor(loc, cursor) == [type |-> "seek", at |-> cursor]

\* sd_journal_next: the entry following the current one; after a seek to a
\* cursor the entry at the cursor (or the closest later one); nothing after
\* the tail.  r = 1 and the new read pointer, or r = 0 and no move.
sd_journal_next(loc) ==
    LET cand == {i \in Available : IF loc.type = "seek" THEN i >= loc.at ELSE i > loc.at}
    IN  IF cand = {} THEN [r |-> 0, loc |-> loc]
        ELSE [r |-> 1, loc |-> [type |-> "discrete", at |-> SetMin(cand)]]

\* sd_journal_previous: the entry before the current one; after seek_tail
\* the newest entry.
sd_journal_previous(loc) ==
    LET cand == {i \in Available : IF loc.type = "discrete" THEN i < loc.at ELSE i <= loc.at}
    IN  IF cand = {} THEN [r |-> 0, loc |-> loc]
        ELSE [r |-> 1, loc |-> [type |-> "discrete", at |-> SetMax(cand)]]

\* sd_journal_previous_skip(j, skip): goes back up to skip entries and stops
\* at the oldest one; returns how many entries it went back.
RECURSIVE sd_journal_previous_skip(_, _)
sd_journal_previous_skip(loc, skip) ==
    IF skip = 0 THEN [r |-> 0, loc |-> loc]
    ELSE LET p == sd_journal_previous(loc)
         IN  IF p.r = 0 THEN [r |-> 0, loc |-> loc]
             ELSE LET q == sd_journal_previous_skip(p.loc, skip - 1)
                  IN  [r |-> q.r + 1, loc |-> q.loc]

\* sd_journal_get_cursor: the cursor of the current entry
sd_journal_get_cursor(loc) == loc.at

\* ---- the entry of one journal record ---------------------------------------
\* What the sd-journal calls return for the record the reader stands on:
\*   get_cursor, realtime : result of sd_journal_get_cursor and
\*                          sd_journal_get_realtime_usec (0 or -errno)
\*   usec, gmtime         : the timestamp, and whether gmtime_r can convert it
\*   data[f]              : result of sd_journal_get_data for field f and the
\*                          text after "f=", as a sequence of characters
FieldNames == {"MESSAGE", "PRIORITY", "SYSLOG_IDENTIFIER", "_COMM"}

Absent == [r |-> -ENOENT, text |-> <<>>]

Present(text) == [r |-> 0, text |-> text]

Digits == <<"0", "1", "2", "3", "4", "5", "6", "7", "8", "9">>

IsDigit(ch) == \E d \in 1..10 : Digits[d] = ch

DigitValue(ch) == (CHOOSE d \in 1..10 : Digits[d] = ch) - 1

\* the digits of s from position i on: how many there are and their value
RECURSIVE strtoll_digits(_, _, _, _)
strtoll_digits(s, i, n, acc) ==
    IF i <= Len(s) /\ IsDigit(s[i])
    THEN strtoll_digits(s, i + 1, n + 1, acc * 10 + DigitValue(s[i]))
    ELSE [n |-> n, number |-> acc]

\* strtoll(string, &end, 10): an optional sign and the leading digits; end is
\* the number of characters converted, 0 when there is no digit
strtoll_signed(s, sign, d) ==
    IF d.n = 0 THEN [end |-> 0, number |-> 0]
    ELSE [end |-> d.n + (IF sign = "" THEN 0 ELSE 1),
          number |-> IF sign = "-" THEN -d.number ELSE d.number]

strtoll(s) ==
    IF Len(s) > 0 /\ s[1] \in {"-", "+"}
    THEN strtoll_signed(s, s[1], strtoll_digits(s, 2, 0, 0))
    ELSE strtoll_signed(s, "", strtoll_digits(s, 1, 0, 0))

\* journal_get_string: the text of the field, or the error of
\* sd_journal_get_data
journal_get_string(rec, field) ==
    IF rec.data[field].r < 0 THEN [r |-> rec.data[field].r, string |-> <<>>]
    ELSE [r |-> 0, string |-> rec.data[field].text]

\* journal_get_int: the field as a number; -EINVAL when it has no digits
journal_get_int_of(string, n) ==
    IF string.r < 0 THEN [r |-> string.r, number |-> 0]
    ELSE IF n.end = 0 THEN [r |-> -EINVAL, number |-> 0]
    ELSE [r |-> 0, number |-> n.number]

journal_get_int(rec, field) ==
    journal_get_int_of(journal_get_string(rec, field), strtoll(rec.data[field].text))

\* format_time_rfc3339: whole seconds, UTC; the text is stood for by the
\* number of seconds it spells
format_time_rfc3339(usec, gmtime) ==
    IF ~gmtime THEN [r |-> -EINVAL, timestr |-> 0]
    ELSE [r |-> 0, timestr |-> usec \div 1000000]

priorities == <<"debug", "information", "notice", "warning",
                "error", "alert", "critical", "emergency">>

\* a VarlinkObject is a function from the names of the fields set to their values
EmptyObject == [f \in {} |-> 0]

varlink_object_set_string(object, field, value) == (field :> value) @@ object

\* no result yet
NoEntry == [done |-> FALSE, r |-> 0, entry |-> EmptyObject]

\* a variant whose table check lets level 8 through to the last name
entry_priority_through(object, priority) ==
    IF priority >= 0 /\ priority <= 8
    THEN varlink_object_set_string(object, "priority",
                                   priorities[IF priority = 8 THEN 8 ELSE priority + 1])
    ELSE object

\* the priority field of the entry: the name of a level 0..7, else no field
entry_priority(object, priority) ==
    IF priority >= 0 /\ priority <= 7
    THEN varlink_object_set_string(object, "priority", priorities[priority + 1])
    ELSE object

\* a variant that asks for _COMM first
entry_process_comm_first(object, rec) ==
    LET comm == journal_get_string(rec, "_COMM")
        identifier == journal_get_string(rec, "SYSLOG_IDENTIFIER")
    IN  IF comm.r = 0 THEN varlink_object_set_string(object, "process", comm.string)
        ELSE IF identifier.r = 0
        THEN varlink_object_set_string(object, "process", identifier.string)
        ELSE object

\* the process field of the entry: SYSLOG_IDENTIFIER, else _COMM, else no field
entry_process(object, rec) ==
    LET identifier == journal_get_string(rec, "SYSLOG_IDENTIFIER")
        comm == journal_get_string(rec, "_COMM")
    IN  IF identifier.r = 0
        THEN varlink_object_set_string(object, "process", identifier.string)
        ELSE IF comm.r = 0 THEN varlink_object_set_string(object, "process", comm.string)
        ELSE object

\* a record all of whose journal calls succeed
GoodRecord ==
    [next |-> 0, get_cursor |-> 0, realtime |-> 0, usec |-> 1999999, gmtime |-> TRUE,
     data |-> [f \in FieldNames |-> IF f = "MESSAGE" THEN Present(<<"m">>) ELSE Absent]]

\* the record for which the call named by fail fails
FailingRecord(fail) ==
    IF fail = "next" THEN [GoodRecord EXCEPT !.next = -EIO]
    ELSE IF fail = "entry_cursor" THEN [GoodRecord EXCEPT !.get_cursor = -EIO]
    ELSE IF fail = "realtime" THEN [GoodRecord EXCEPT !.realtime = -EIO]
    ELSE IF fail = "gmtime" THEN [GoodRecord EXCEPT !.gmtime = FALSE]
    ELSE IF fail = "message" THEN [GoodRecord EXCEPT !.data["MESSAGE"] = Absent]
    ELSE IF fail = "priority" THEN [GoodRecord EXCEPT !.data["PRIORITY"] = Present(<<"x">>)]
    ELSE GoodRecord

\* the entry built from the results of the journal calls: r = 1 and the
\* entry, or the error of the first call that failed.  priority stays -1
\* when the PRIORITY field is not there.
journal_entry_of(cursor, rec, time, message, number) ==
    IF rec.get_cursor < 0 THEN [r |-> rec.get_cursor, entry |-> EmptyObject]
    ELSE IF rec.realtime < 0 THEN [r |-> rec.realtime, entry |-> EmptyObject]
    ELSE IF time.r < 0 THEN [r |-> time.r, entry |-> EmptyObject]
    ELSE IF message.r < 0 THEN [r |-> message.r, entry |-> EmptyObject]
    ELSE IF number.r < 0 /\ number.r # -ENOENT THEN [r |-> number.r, entry |-> EmptyObject]
    ELSE [r |-> 1,
          entry |-> entry_process(
                        entry_priority(
                            varlink_object_set_string(
                                varlink_object_set_string(
                                    varlink_object_set_string(EmptyObject, "cursor", cursor),
                                    "time", time.timestr),
                                "message", message.string),
                            IF number.r < 0 THEN -1 ELSE number.number),
                        rec)]

\* journal_read_next_entry after sd_journal_next has made a record current
journal_entry(cursor, rec) ==
    journal_entry_of(cursor, rec, format_time_rfc3339(rec.usec, rec.gmtime),
                     journal_get_string(rec, "MESSAGE"), journal_get_int(rec, "PRIORITY"))

\* ---- Monitor ------------------------------------------------------------
NoMonitor == [alive |-> "none", journal |-> "null", cursor |-> 0, loc |-> NoLoc]

\* A call and what it has been sent: delivered is the last record of the last
\* non-empty frame (0: none yet); error is the error reply it got, or
\* "SendFailed" once a continuing reply could not be sent.
NoCall == [state |-> "none", refs |-> 0, callback |-> FALSE,
           delivered |-> 0, error |-> "none", parameter |-> "none"]

Ascending(s) == \A i \in 1..(Len(s) - 1) : s[i] < s[i + 1]

\* varlink_call_reply with an entries array: the call after the frame
varlink_call_reply(cl, entries) ==
    [cl EXCEPT !.delivered = IF entries = <<>> THEN @ ELSE entries[Len(entries)]]

\* varlink_call_reply_invalid_parameter: the error reply naming the parameter
varlink_call_reply_invalid_parameter(cl, name) ==
    [cl EXCEPT !.error = "InvalidParameter", !.parameter = name]

\* per call: Monitors allocated (news), monitor_free runs (frees),
\* registrations removed (dels) and what the frees released, in order
NoHist == [news |-> 0, frees |-> 0, dels |-> 0, teardown |-> <<>>]

\* The handler the event loop ran most recently: the call, its inputs, the
\* stored cursor (cur) and the last record delivered (prev) before it, whether
\* the read-batch ran, its result and entries, whether a frame was sent, and
\* the handler's return value; the tag of the event that was ready, the call
\* that failed (fail), the value main's switch got (seen), whether stderr is
\* a terminal (tty) and whether a message was written to it (logged).
\* Steps that run no handler reset it.
NoLast == [op |-> "none", c |-> 0, k |-> 0, event |-> "none",
           cur |-> 0, prev |-> 0, ran |-> FALSE, nread |-> 0, batch |-> <<>>, sent |-> FALSE,
           r |-> 0, uaf |-> FALSE, tag |-> <<"none", 0>>, fail |-> "none",
           seen |-> 0, tty |-> FALSE, logged |-> FALSE]

\* the data.ptr tags of the epoll events: the service, NULL for the signalfd,
\* the Monitor of call c
ServiceTag == <<"service", 0>>

SignalTag == <<"signal", 0>>

MonitorTag(c) == <<"monitor", c>>

\* epoll_add(epoll_fd, fd, ptr): EPOLL_CTL_ADD of the tag
epoll_add(ep, tag) == ep \cup {tag}

\* the EPOLL_CTL_DEL of monitor_free, skipped by a variant that forgets it
monitor_free_epoll_keep(ep, c, m) == ep

\* the EPOLL_CTL_DEL of monitor_free: only when the journal was opened
monitor_free_epoll(ep, c, m) == IF m.journal = "open" THEN ep \ {MonitorTag(c)} ELSE ep

\* monitor_free: deregister and close the journal, drop the call reference,
\* free cursor and Monitor.  Yields the new values of the four objects.
monitor_free(c, m, ep, cl, h) ==
    [monitor |-> [alive |-> "freed",
                  journal |-> IF m.journal = "open" THEN "closed" ELSE m.journal,
                  cursor |-> 0,
                  loc |-> NoLoc],
     epoll |-> monitor_free_epoll(ep, c, m),
     call |-> [cl EXCEPT !.refs = cl.refs - 1],
     hist |-> [news |-> h.news,
               frees |-> h.frees + 1,
               dels |-> IF m.journal = "open" /\ MonitorTag(c) \in ep /\ MonitorTag(c) \notin monitor_free_epoll(ep, c, m)
                        THEN h.dels + 1 ELSE h.dels,
               teardown |-> h.teardown \o
                            (IF m.journal = "open" /\ MonitorTag(c) \notin monitor_free_epoll(ep, c, m)
                             THEN <<"epoll_del">> ELSE <<>>) \o
                            (IF m.journal = "open" THEN <<"journal_close">> ELSE <<>>) \o
                            <<"call_unref", "free">>]]

\* a variant that frees whatever the pointer holds
monitor_freep_always(handed_over) == TRUE

\* monitor_freep at the scope exit of the handler: monitor_free runs unless
\* the pointer was set to NULL when the Monitor was handed to the callback
monitor_freep(handed_over) == ~handed_over

\* monitor_new: calloc, take a call reference, open the journal, register
\* its fd with the epoll, seek to the tail.  fail names the step that fails.
monitor_new(fail) ==
    IF fail = "open" THEN [r |-> -EIO, journal |-> "null", registered |-> FALSE, loc |-> NoLoc]
    ELSE IF fail = "add" THEN [r |-> -EIO, journal |-> "open", registered |-> FALSE, loc |-> NoLoc]
    ELSE IF fail = "seek" THEN [r |-> -EIO, journal |-> "open", registered |-> TRUE, loc |-> NoLoc]
    ELSE [r |-> 0, journal |-> "open", registered |-> TRUE, loc |-> sd_journal_seek_tail(NoLoc)]

\* journal_read_next_entry with the reader at loc, where rec is what the
\* journal calls return for the next record: r = 1 and the entry, r = 0 at
\* the end of the journal, r < 0 when a journal call fails.
journal_read_next_entry_of(loc, rec, n, e) ==
    IF rec.next < 0 THEN [r |-> rec.next, loc |-> loc, entry |-> EmptyObject]
    ELSE IF n.r <= 0 THEN [r |-> n.r, loc |-> loc, entry |-> EmptyObject]
    ELSE IF e.r < 0 THEN [r |-> e.r, loc |-> n.loc, entry |-> EmptyObject]
    ELSE [r |-> 1, loc |-> n.loc, entry |-> e.entry]

journal_read_next_entry(loc, rec) ==
    journal_read_next_entry_of(loc, rec, sd_journal_next(loc),
                               journal_entry(sd_journal_get_cursor(sd_journal_next(loc).loc), rec))

\* the result of the for (;;) loop of monitor_read_entries once
\* journal_read_next_entry returned r <= 0 with entries collected
read_loop_result(r, entries) == IF r < 0 THEN -VARLINK_ERROR_PANIC ELSE Len(entries)

\* the for (;;) loop of monitor_read_entries.  The array is kept as the
\* cursors of its entries.  failAfter < 0: no call fails, otherwise the call
\* named by fail fails for the record after failAfter entries.
RECURSIVE read_loop(_, _, _, _)
read_loop(loc, entries, fail, failAfter) ==
    LET e == journal_read_next_entry(loc, IF Len(entries) = failAfter
                                          THEN FailingRecord(fail) ELSE GoodRecord)
    IN  IF e.r <= 0
        THEN [r |-> read_loop_result(e.r, entries), loc |-> e.loc, entries |-> entries]
        ELSE read_loop(e.loc, Append(entries, e.entry["cursor"]), fail, failAfter)

\* a variant that keeps a cursor it already has
read_entries_cursor_stale(old, n_read, loc) ==
    IF old # 0 THEN old ELSE IF n_read > 0 THEN sd_journal_get_cursor(loc) ELSE 0

\* the cursor update after the loop: the old cursor is freed and set to
\* NULL, and replaced by the current entry's cursor if n_read > 0
read_entries_cursor(old, n_read, loc) ==
    IF n_read > 0 THEN sd_journal_get_cursor(loc) ELSE 0

\* a variant that drops the stored cursor before it reads
monitor_read_entries_reset_first(cursor, loc, fail, failAfter) ==
    LET l == read_loop(loc, <<>>, fail, IF fail \in ReadFails THEN failAfter ELSE -1)
    IN  IF l.r < 0
        THEN [r |-> l.r, entries |-> <<>>, loc |-> l.loc, cursor |-> 0]
        ELSE IF l.r > 0 /\ fail = "cursor"
        THEN [r |-> -VARLINK_ERROR_PANIC, entries |-> <<>>, loc |-> l.loc, cursor |-> 0]
        ELSE [r |-> l.r, entries |-> l.entries, loc |-> l.loc,
              cursor |-> read_entries_cursor(cursor, l.r, l.loc)]

\* monitor_read_entries: r is n_read or -VARLINK_ERROR_PANIC
monitor_read_entries(cursor, loc, fail, failAfter) ==
    LET l == read_loop(loc, <<>>, fail, IF fail \in ReadFails THEN failAfter ELSE -1)
    IN  IF l.r < 0
        THEN [r |-> l.r, entries |-> <<>>, loc |-> l.loc, cursor |-> cursor]
        ELSE IF l.r > 0 /\ fail = "cursor"
        THEN [r |-> -VARLINK_ERROR_PANIC, entries |-> <<>>, loc |-> l.loc, cursor |-> 0]
        ELSE [r |-> l.r, entries |-> l.entries, loc |-> l.loc,
              cursor |-> read_entries_cursor(cursor, l.r, l.loc)]

\* ---- the Monitor method ---------------------------------------------------
\* a variant that hands every Monitor to the callback
monitor_handed_over_always(more) == TRUE

\* the end of the handler: with VARLINK_CALL_MORE the Monitor is handed to
\* the connection-closed callback and the handler's pointer set to NULL
monitor_handed_over(more) == more

\* com_redhat_logging_monitor up to the point where the handler returns:
\* what it built (journal, registration, cursor, read pointer), the batch it
\* replied with, its return value, and whether the Monitor outlives it
\* (keep) or is freed by the scope exit.
com_redhat_logging_monitor(k, more, fail, failAfter) ==
    LET new == monitor_new(fail)
        skip == sd_journal_previous_skip(new.loc, k + 1)
        rd == monitor_read_entries(0, skip.loc, fail, failAfter)
        out == [r |-> 0, keep |-> FALSE, journal |-> new.journal,
                registered |-> new.registered, cursor |-> 0, loc |-> new.loc,
                ran |-> FALSE, nread |-> 0, batch |-> <<>>, sent |-> FALSE,
                error |-> "none", parameter |-> "none"]
    IN  IF new.r < 0 THEN [out EXCEPT !.r = new.r]
        ELSE IF k < 0
        THEN [out EXCEPT !.error = "InvalidParameter", !.parameter = "initial_lines"]
        ELSE IF fail = "skip" THEN [out EXCEPT !.r = -EIO]
        ELSE IF rd.r < 0
        THEN [out EXCEPT !.r = rd.r, !.ran = TRUE, !.nread = rd.r,
                         !.cursor = rd.cursor, !.loc = rd.loc]
        ELSE IF fail = "reply"
        THEN [out EXCEPT !.r = -EIO, !.ran = TRUE, !.nread = rd.r, !.batch = rd.entries,
                         !.cursor = rd.cursor, !.loc = rd.loc]
        ELSE [out EXCEPT !.keep = monitor_handed_over(more), !.ran = TRUE, !.nread = rd.r, !.batch = rd.entries,
                         !.cursor = rd.cursor, !.loc = rd.loc, !.sent = TRUE]

\* a variant that gives up on every error
loop_result_strict(r, tty) ==
    IF r # 0 THEN [status |-> "exited", exitcode |-> ERROR_PANIC, logged |-> TRUE]
    ELSE [status |-> "running", exitcode |-> 0, logged |-> FALSE]

\* main's switch on the result of varlink_service_process_events and of
\* monitor_dispatch: 0 goes on, -VARLINK_ERROR_PANIC exits with ERROR_PANIC
\* (exit_error writes to stderr), anything else is written to stderr if
\* that is a terminal
loop_result(r, tty) ==
    IF r = 0 THEN [status |-> "running", exitcode |-> 0, logged |-> FALSE]
    ELSE IF r = -VARLINK_ERROR_PANIC
    THEN [status |-> "exited", exitcode |-> ERROR_PANIC, logged |-> TRUE]
    ELSE [status |-> "running", exitcode |-> 0, logged |-> tty]

\* a variant that rewinds to the head when there is no cursor
monitor_dispatch_seek_head(m) ==
    IF m.cursor # 0 THEN sd_journal_seek_cursor(m.loc, m.cursor)
    ELSE sd_journal_seek_head(m.loc)

\* the repositioning of monitor_dispatch on SD_JOURNAL_INVALIDATE: to the
\* stored cursor if there is one, else to the tail
monitor_dispatch_seek(m) ==
    IF m.cursor # 0 THEN sd_journal_seek_cursor(m.loc, m.cursor)
    ELSE sd_journal_seek_tail(m.loc)

\* monitor_dispatch on a live Monitor m: the notification, the repositioning
\* on SD_JOURNAL_INVALIDATE, the read-batch and the continuing reply
monitor_dispatch(m, event, fail, failAfter) ==
    LET seek == IF event = "SD_JOURNAL_INVALIDATE" THEN monitor_dispatch_seek(m) ELSE m.loc
        rd == monitor_read_entries(m.cursor, seek, fail, failAfter)
        out == [r |-> 0, cursor |-> m.cursor, loc |-> m.loc, ran |-> FALSE,
                nread |-> 0, batch |-> <<>>, sent |-> FALSE]
    IN  IF event = "SD_JOURNAL_INVALIDATE" /\ fail = "seek"
        THEN [out EXCEPT !.r = -VARLINK_ERROR_PANIC]
        ELSE IF event \notin {"SD_JOURNAL_INVALIDATE", "SD_JOURNAL_APPEND"} THEN out
        ELSE IF rd.r < 0
        THEN [out EXCEPT !.r = rd.r, !.cursor = rd.cursor, !.loc = rd.loc,
                         !.ran = TRUE, !.nread = rd.r]
        ELSE IF rd.r = 0
        THEN [out EXCEPT !.cursor = rd.cursor, !.loc = rd.loc, !.ran = TRUE]
        ELSE IF fail = "reply"
        THEN [out EXCEPT !.r = -EIO, !.cursor = rd.cursor, !.loc = rd.loc,
                         !.ran = TRUE, !.nread = rd.r, !.batch = rd.entries]
        ELSE [out EXCEPT !.cursor = rd.cursor, !.loc = rd.loc, !.ran = TRUE,
                         !.nread = rd.r, !.batch = rd.entries, !.sent = TRUE]

\* read_signal: the signal number, or -EIO on a short read
read_signal(sig, readFails) == IF readFails THEN -EIO ELSE sig

\* a variant that knows SIGTERM only
signal_result_term_only(s) == IF s = SIGTERM THEN EXIT_SUCCESS ELSE ERROR_PANIC

\* main's switch on the result of read_signal: the value main returns
signal_result(s) == IF s \in {SIGTERM, SIGINT} THEN EXIT_SUCCESS ELSE ERROR_PANIC

\* a variant without the test for the NULL tag
main_dispatch_no_null(tag) == IF tag = ServiceTag THEN "service" ELSE "monitor"

\* main's test of event.data.ptr: the service, NULL for the signalfd, and
\* every other value is taken for a Monitor
main_dispatch(tag) ==
    IF tag = ServiceTag THEN "service"
    ELSE IF tag = SignalTag THEN "signal"
    ELSE "monitor"

\* ---- state machine ------------------------------------------------------
Init ==
    /\ top \in 0..MaxRecords
    /\ base \in 0..top
    /\ monitor = [c \in Calls |-> NoMonitor]
    /\ call = [c \in Calls |-> NoCall]
    /\ epoll = {ServiceTag, SignalTag}
    /\ status = "running"
    /\ exitcode = 0
    /\ hist = [c \in Calls |-> NoHist]
    /\ last = NoLast
    /\ record = GoodRecord
    /\ entry = NoEntry

\* journald writes one more record
JournalAppend ==
    /\ status = "running"
    /\ top < MaxRecords
    /\ top' = top + 1
    /\ last' = NoLast
    /\ UNCHANGED <<base, monitor, call, epoll, status, exitcode, hist, record, entry>>

\* vacuuming removes the oldest record
JournalVacuum ==
    /\ status = "running"
    /\ base < top
    /\ base' = base + 1
    /\ last' = NoLast
    /\ UNCHANGED <<top, monitor, call, epoll, status, exitcode, hist, record, entry>>

\* The event with the tag is ready, main takes it for the service and
\* varlink_service_process_events runs the Monitor method for a new call c
\* with initial_lines = k and with or without VARLINK_CALL_MORE; fail names
\* the step that fails, for a read of the journal the one after failAfter
\* entries.  propagate: whether the transport hands a negative handler
\* result on to main; tty: whether stderr is a terminal.
MonitorCall(tag, c) ==
    LET built(o) == [alive |-> "live", journal |-> o.journal, cursor |-> o.cursor, loc |-> o.loc]
        ep(o) == IF o.registered THEN epoll_add(epoll, MonitorTag(c)) ELSE epoll
        cl0(o) == IF o.error = "InvalidParameter"
                  THEN varlink_call_reply_invalid_parameter(
                           [NoCall EXCEPT !.state = "done", !.refs = 1], o.parameter)
                  ELSE [NoCall EXCEPT !.state = "done", !.refs = 1]
        cl1(o) == IF o.sent THEN varlink_call_reply(cl0(o), o.batch) ELSE cl0(o)
        cl(o, more) == [cl1(o) EXCEPT !.state = IF more /\ o.sent THEN "streaming" ELSE "done",
                                      !.callback = o.keep]
        h == [hist[c] EXCEPT !.news = @ + 1]
    IN  /\ status = "running"
        /\ main_dispatch(tag) = "service"
        /\ call[c].state = "none"
        /\ \A d \in Calls : d < c => call[d].state # "none"
        /\ \E k \in Lines, more \in BOOLEAN, fail \in Fails :
           \E failAfter \in (IF fail \in ReadFails THEN 0..1 ELSE {-1}) :
           \E o \in {com_redhat_logging_monitor(k, more, fail, failAfter)} :
            /\ (fail # "none") => o.r < 0
            \* inputs the handler never gets to read are not varied
            /\ (fail \in {"open", "add", "seek"}) => k \in {-1, 0}
            /\ ~o.sent => ~more
            /\ IF monitor_freep(o.keep)
               THEN \E f \in {monitor_free(c, built(o), ep(o), cl(o, more), h)} :
                    /\ monitor' = [monitor EXCEPT ![c] = f.monitor]
                    /\ epoll' = f.epoll
                    /\ call' = [call EXCEPT ![c] = f.call]
                    /\ hist' = [hist EXCEPT ![c] = f.hist]
               ELSE /\ monitor' = [monitor EXCEPT ![c] = built(o)]
                    /\ epoll' = ep(o)
                    /\ call' = [call EXCEPT ![c] = cl(o, more)]
                    /\ hist' = [hist EXCEPT ![c] = h]
            /\ \E propagate \in (IF o.r = 0 THEN {FALSE} ELSE BOOLEAN) :
               \E tty \in (IF propagate /\ o.r # -VARLINK_ERROR_PANIC THEN BOOLEAN ELSE {FALSE}) :
               \E res \in {loop_result(IF propagate THEN o.r ELSE 0, tty)} :
                /\ status' = res.status
                /\ exitcode' = res.exitcode
                /\ last' = [NoLast EXCEPT !.op = "monitor", !.c = c, !.k = k,
                                          !.ran = o.ran, !.nread = o.nread, !.batch = o.batch,
                                          !.sent = o.sent, !.r = o.r, !.tag = tag,
                                          !.fail = fail,
                                          !.seen = IF propagate THEN o.r ELSE 0,
                                          !.tty = tty, !.logged = res.logged]
        /\ UNCHANGED <<top, base, record, entry>>

\* The event with the tag is ready, main takes it for the service and the
\* transport finds the connection of call c closed: monitor_canceled
ClientDisconnect(tag, c) ==
    /\ status = "running"
    /\ main_dispatch(tag) = "service"
    /\ call[c].callback
    /\ \E f \in {monitor_free(c, monitor[c], epoll, call[c], hist[c])} :
        /\ monitor' = [monitor EXCEPT ![c] = f.monitor]
        /\ epoll' = f.epoll
        /\ call' = [call EXCEPT ![c] = [f.call EXCEPT !.state = "closed", !.callback = FALSE]]
        /\ hist' = [hist EXCEPT ![c] = f.hist]
        /\ last' = [NoLast EXCEPT !.op = "disconnect", !.c = c, !.tag = tag]
        /\ UNCHANGED <<top, base, status, exitcode, record, entry>>

\* The event with the tag is ready, main takes it for the service and
\* varlink_service_process_events fails with r for a reason of the
\* transport; tty: whether stderr is a terminal
ServiceError(tag) ==
    /\ status = "running"
    /\ main_dispatch(tag) = "service"
    /\ \E r \in {-VARLINK_ERROR_PANIC, -EIO} :
       \E tty \in (IF r = -VARLINK_ERROR_PANIC THEN {FALSE} ELSE BOOLEAN) :
       \E res \in {loop_result(r, tty)} :
        /\ status' = res.status
        /\ exitcode' = res.exitcode
        /\ last' = [NoLast EXCEPT !.op = "service_error", !.r = r, !.tag = tag,
                                  !.seen = r, !.tty = tty, !.logged = res.logged]
    /\ UNCHANGED <<top, base, monitor, call, epoll, hist, record, entry>>

\* The event with the tag is ready and main takes it for the signalfd: the
\* signal sig is read, or the read fails
SignalWakeup(tag) ==
    /\ status = "running"
    /\ main_dispatch(tag) = "signal"
    /\ \E sig \in {SIGTERM, SIGINT, SIGHUP} :
       \E readFails \in (IF sig = SIGTERM THEN BOOLEAN ELSE {FALSE}) :
       \E s \in {read_signal(sig, readFails)} :
        /\ status' = "exited"
        /\ exitcode' = signal_result(s)
        /\ last' = [NoLast EXCEPT !.op = "signal", !.r = s, !.tag = tag, !.seen = s]
    /\ UNCHANGED <<top, base, monitor, call, epoll, hist, record, entry>>

\* epoll_wait fails: EINTR is retried, anything else ends the process
EpollWaitError(eintr) ==
    /\ status = "running"
    /\ status' = IF eintr THEN "running" ELSE "exited"
    /\ exitcode' = IF eintr THEN exitcode ELSE ERROR_PANIC
    /\ last' = NoLast
    /\ UNCHANGED <<top, base, monitor, call, epoll, hist, record, entry>>

\* The event with the tag is ready and main takes the tag for a Monitor:
\* monitor_dispatch, with the notification event and the failing step fail,
\* and main's switch on its result.  A tag that is not a live Monitor (NULL,
\* or a Monitor that has been freed) is an invalid access: the process goes
\* on or crashes.
MonitorWakeup(tag) ==
    LET c == tag[2]
        live == tag[1] = "monitor" /\ monitor[c].alive = "live"
    IN  /\ status = "running"
        /\ main_dispatch(tag) = "monitor"
        /\ IF live
           THEN \E event \in Events, fail \in DispatchFails :
                \E failAfter \in (IF fail \in ReadFails THEN 0..1 ELSE {-1}) :
                \E o \in {monitor_dispatch(monitor[c], event, fail, failAfter)} :
                \E tty \in (IF o.r \in {0, -VARLINK_ERROR_PANIC} THEN {FALSE} ELSE BOOLEAN) :
                \E res \in {loop_result(o.r, tty)} :
                    /\ (fail # "none") => o.r < 0
                    /\ monitor' = [monitor EXCEPT ![c].cursor = o.cursor, ![c].loc = o.loc]
                    /\ call' = [call EXCEPT ![c] =
                                   IF o.sent THEN varlink_call_reply(@, o.batch)
                                   ELSE IF o.r = -EIO THEN [@ EXCEPT !.error = "SendFailed"]
                                   ELSE @]
                    /\ status' = res.status
                    /\ exitcode' = res.exitcode
                    /\ last' = [NoLast EXCEPT !.op = "dispatch", !.c = c, !.event = event,
                                              !.cur = monitor[c].cursor,
                                              !.prev = call[c].delivered, !.ran = o.ran,
                                              !.nread = o.nread, !.batch = o.batch,
                                              !.sent = o.sent, !.r = o.r, !.tag = tag,
                                              !.fail = fail, !.seen = o.r,
                                              !.tty = tty, !.logged = res.logged]
           ELSE \E crash \in BOOLEAN :
                /\ status' = IF crash THEN "crashed" ELSE status
                /\ last' = [NoLast EXCEPT !.op = "dispatch", !.c = c,
                                          !.event = "SD_JOURNAL_NOP", !.uaf = TRUE, !.tag = tag]
                /\ UNCHANGED <<monitor, call, exitcode>>
        /\ UNCHANGED <<top, base, epoll, hist, record, entry>>

\* one wake-up of epoll_wait with one event, or its failure; journald writes
\* and vacuums on its own
Next ==
    \/ JournalAppend
    \/ JournalVacuum
    \/ \E tag \in epoll, c \in Calls : MonitorCall(tag, c)
    \/ \E tag \in epoll, c \in Calls : ClientDisconnect(tag, c)
    \/ \E tag \in epoll : ServiceError(tag)
    \/ \E tag \in epoll : SignalWakeup(tag)
    \/ \E eintr \in BOOLEAN : EpollWaitError(eintr)
    \/ \E tag \in epoll : MonitorWakeup(tag)

Spec == Init /\ [][Next]_vars

\* ---- journal_read_next_entry on its own -----------------------------------
PriorityTexts ==
    {<<>>, <<"x">>, <<"-", "1">>, <<"1", "0">>, <<"3", "x">>}
        \cup {<<Digits[d + 1]>> : d \in 0..MaxLevel}

\* what the journal calls can return for one record
Records ==
    {[next |-> n, get_cursor |-> gc, realtime |-> rt, usec |-> 1999999, gmtime |-> g,
      data |-> ("MESSAGE" :> m) @@ ("PRIORITY" :> p)
               @@ ("SYSLOG_IDENTIFIER" :> si) @@ ("_COMM" :> cm)] :
        n \in {0, -EIO}, gc \in {0, -EIO}, rt \in {0, -EIO}, g \in BOOLEAN,
        m \in {Absent, Present(<<"m">>)},
        p \in {Absent, [r |-> -EIO, text |-> <<>>]} \cup {Present(t) : t \in PriorityTexts},
        si \in {Absent, Present(<<"sshd">>)},
        cm \in {Absent, Present(<<"bash">>)}}

\* a journal of at most one record with the reader in front of it
TranslateInit ==
    /\ top \in 0..1
    /\ base = 0
    /\ monitor = [c \in Calls |-> NoMonitor]
    /\ call = [c \in Calls |-> NoCall]
    /\ epoll = {ServiceTag, SignalTag}
    /\ status = "running"
    /\ exitcode = 0
    /\ hist = [c \in Calls |-> NoHist]
    /\ last = NoLast
    /\ record \in Records
    /\ entry = NoEntry

\* journal_read_next_entry for the record
Translate ==
    /\ ~entry.done
    /\ \E e \in {journal_read_next_entry(sd_journal_seek_head(NoLoc), record)} :
           entry' = [done |-> TRUE, r |-> e.r, entry |-> e.entry]
    /\ UNCHANGED <<top, base, monitor, call, epoll, status, exitcode, hist, last, record>>

TranslateNext == Translate

TranslateSpec == TranslateInit /\ [][TranslateNext]_vars

\* ---- properties ----------------------------------------------------------
Range(s) == {s[i] : i \in 1..Len(s)}

Dispatched == last.op = "dispatch" /\ ~last.uaf

\* C1: a Monitor call with initial_lines = k >= 0 against a journal of m
\* records is answered with exactly min(k, m) entries, in log order, the
\* newest record last, and (for k > 0) with no entry only if m = 0.
InitialReplyHasMinLinesRecords ==
    (last.op = "monitor" /\ last.k >= 0 /\ last.sent) =>
        /\ Len(last.batch) = Min(last.k, top - base)
        /\ Ascending(last.batch)
        /\ last.batch # <<>> => Last(last.batch) = top
        /\ last.k > 0 => ((last.batch = <<>>) <=> (top = base))

\* C2: when the dispatch of a session fails with Panic, that session is
\* terminated with a Panic error on its call and the service keeps running.
DispatchPanicEndsOnlyTheSession ==
    (Dispatched /\ last.r = -VARLINK_ERROR_PANIC) =>
        /\ status = "running"
        /\ call[last.c].error = "Panic"
        /\ monitor[last.c].alive = "freed"
        /\ MonitorTag(last.c) \notin epoll

\* a session that is being served: the process runs, the client is connected
\* and every reply went out
Serving(c) == status = "running" /\ call[c].state = "streaming" /\ call[c].error = "none"

\* C3: in a served session that has delivered an entry, no retrievable
\* record after the last delivered one is behind the reader: each is still to
\* be returned by sd_journal_next.
NoRecordSkipped ==
    \A c \in Calls :
        (Serving(c) /\ call[c].delivered # 0) =>
            \A i \in Available :
                i > call[c].delivered =>
                    IF monitor[c].loc.type = "seek" THEN i >= monitor[c].loc.at
                    ELSE i > monitor[c].loc.at

\* C4: a read-batch of zero records leaves the stored cursor as it was, so
\* the cursor of a session is that of the last delivered record, and NULL
\* only while nothing has been delivered.
EmptyBatchKeepsCursor ==
    /\ (Dispatched /\ last.ran /\ last.nread = 0) => monitor[last.c].cursor = last.cur
    /\ \A c \in Calls : Serving(c) => monitor[c].cursor = call[c].delivered

\* C5: after a read-batch that read at least one record the stored cursor
\* is the cursor of the last entry of that batch.
BatchSetsCursor ==
    (last.op \in {"monitor", "dispatch"} /\ ~last.uaf /\ last.nread > 0
     /\ monitor[last.c].alive = "live") =>
        monitor[last.c].cursor = Last(last.batch)

\* a dispatch read a batch while a cursor was stored and replaced it
BatchReplacedCursor ==
    /\ Dispatched /\ last.nread > 0 /\ last.cur # 0
    /\ monitor[last.c].alive = "live"
    /\ monitor[last.c].cursor # last.cur

\* C6: a dispatch that sees SD_JOURNAL_INVALIDATE with a stored cursor c
\* reads exactly the records after c: not c again, and none after c left out.
InvalidateResumesAfterCursor ==
    (Dispatched /\ last.event = "SD_JOURNAL_INVALIDATE" /\ last.cur # 0
     /\ last.ran /\ last.nread >= 0) =>
        /\ \A i \in Range(last.batch) : i > last.cur
        /\ \A i \in Available : i > last.cur => i \in Range(last.batch)

\* C7: a dispatch that sees SD_JOURNAL_INVALIDATE without a stored cursor
\* moves the reader to the tail and delivers none of the records there are.
InvalidateWithoutCursorNoBackfill ==
    (Dispatched /\ last.event = "SD_JOURNAL_INVALIDATE" /\ last.cur = 0) =>
        /\ last.batch = <<>>
        /\ ~last.sent
        /\ last.r = 0 => monitor[last.c].loc = [type |-> "tail", at |-> top]

\* such a dispatch ran its read-batch while the journal held records
InvalidateWithoutCursorSeen ==
    /\ Dispatched /\ last.event = "SD_JOURNAL_INVALIDATE" /\ last.cur = 0
    /\ last.ran /\ last.r = 0
    /\ Available # {}

\* C8: once the client of a streaming session has disconnected, its journal
\* fd has been removed from the epoll exactly once and before the journal
\* was closed, the call reference and the Monitor are released, and no
\* wake-up dispatches to a freed Monitor.
DisconnectTearsDownOnce ==
    /\ \A c \in Calls :
           call[c].state = "closed" =>
               /\ hist[c].dels = 1
               /\ hist[c].frees = 1
               /\ hist[c].teardown = <<"epoll_del", "journal_close", "call_unref", "free">>
               /\ MonitorTag(c) \notin epoll
               /\ call[c].refs = 0
               /\ ~call[c].callback
               /\ monitor[c].alive = "freed"
               /\ monitor[c].journal = "closed"
    /\ last.op = "dispatch" => (~last.uaf /\ monitor[last.c].alive = "live")

\* a session was torn down by a disconnect and the loop has woken up since
WakeupAfterDisconnect ==
    /\ \E c \in Calls : call[c].state = "closed"
    /\ last.op = "service_error"
    /\ status = "running"

\* C9: every frame lists records in log order, and a continuing frame holds
\* only records after the last record delivered before it.
FramesInLogOrder ==
    /\ (last.op \in {"monitor", "dispatch"} /\ last.sent) => Ascending(last.batch)
    /\ (Dispatched /\ last.sent /\ last.prev # 0) =>
           \A i \in Range(last.batch) : i > last.prev

\* C10: a dispatch sends a frame only if it read a record not delivered
\* before; a frame for one new record has one entry; SD_JOURNAL_NOP, and a
\* batch of zero records, send nothing and are no error.
FrameOnlyForNewRecords ==
    Dispatched =>
        /\ last.sent => \E i \in Range(last.batch) : i > last.prev
        /\ (last.sent /\ Cardinality({i \in Available : i > last.prev}) = 1) =>
               Len(last.batch) = 1
        /\ last.event = "SD_JOURNAL_NOP" => (~last.sent /\ last.r = 0)
        /\ (last.ran /\ last.nread = 0) => (~last.sent /\ last.r = 0)

\* C11: a Monitor call with initial_lines < 0 is answered with
\* InvalidParameter naming initial_lines and with no entries reply, and once
\* the handler has returned there is no Monitor, no open journal, no
\* registration and no callback for the call.
NegativeLinesInvalidParameter ==
    (last.op = "monitor" /\ last.k < 0) =>
        /\ call[last.c].error = "InvalidParameter"
        /\ call[last.c].parameter = "initial_lines"
        /\ ~last.sent
        /\ call[last.c].delivered = 0
        /\ monitor[last.c].alive = "freed"
        /\ monitor[last.c].journal # "open"
        /\ MonitorTag(last.c) \notin epoll
        /\ ~call[last.c].callback

\* the record was read without an error in any call but those for PRIORITY
ReadBesidesPriority ==
    /\ entry.done
    /\ top = 1
    /\ record.next = 0 /\ record.get_cursor = 0 /\ record.realtime = 0 /\ record.gmtime
    /\ record.data["MESSAGE"].r = 0

\* the severity names of the levels 0..7
SeverityNames == <<"debug", "information", "notice", "warning",
                   "error", "alert", "critical", "emergency">>

\* texts of the PRIORITY field and the numbers they spell
LevelTexts ==
    {<<l, <<Digits[l + 1]>>>> : l \in 0..MaxLevel} \cup {<<-1, <<"-", "1">>>>, <<10, <<"1", "0">>>>}

\* C12: a record with level l in 0..7 gets the l-th severity name as its
\* priority, different levels get different names, and a record with any
\* other level or without a PRIORITY field gets an entry without a priority
\* field, which is no error.
SeverityMapping ==
    ReadBesidesPriority =>
        /\ \A p \in LevelTexts :
               record.data["PRIORITY"] = Present(p[2]) =>
                   /\ entry.r = 1
                   /\ IF p[1] \in 0..7
                      THEN /\ "priority" \in DOMAIN entry.entry
                           /\ entry.entry["priority"] = SeverityNames[p[1] + 1]
                           /\ \A q \in 0..7 :
                                  q # p[1] => entry.entry["priority"] # SeverityNames[q + 1]
                      ELSE "priority" \notin DOMAIN entry.entry
        /\ record.data["PRIORITY"] = Absent =>
               (entry.r = 1 /\ "priority" \notin DOMAIN entry.entry)

\* a record of level 8 was read, and no error came of it
LevelEightRead ==
    /\ ReadBesidesPriority
    /\ record.data["PRIORITY"] = Present(<<"8">>)
    /\ entry.r = 1

\* C13: the process field of an entry is the SYSLOG_IDENTIFIER of the record
\* if it has one, with or without _COMM; else its _COMM; and there is no
\* process field if the record has neither.
ProcessNameResolution ==
    (entry.done /\ entry.r = 1) =>
        /\ record.data["SYSLOG_IDENTIFIER"].r = 0 =>
               /\ "process" \in DOMAIN entry.entry
               /\ entry.entry["process"] = record.data["SYSLOG_IDENTIFIER"].text
        /\ (record.data["SYSLOG_IDENTIFIER"] = Absent /\ record.data["_COMM"].r = 0) =>
               /\ "process" \in DOMAIN entry.entry
               /\ entry.entry["process"] = record.data["_COMM"].text
        /\ (record.data["SYSLOG_IDENTIFIER"] = Absent /\ record.data["_COMM"] = Absent) =>
               "process" \notin DOMAIN entry.entry

\* a record with both fields was read
BothNamesRead ==
    /\ entry.done /\ entry.r = 1
    /\ record.data["SYSLOG_IDENTIFIER"].r = 0
    /\ record.data["_COMM"].r = 0
    /\ record.data["SYSLOG_IDENTIFIER"].text # record.data["_COMM"].text

\* C14: while the loop runs and no handler does, the journal fd of a Monitor
\* is registered exactly if its journal is open and its call is streaming; a
\* call that is not streaming and a call whose handler failed have neither a
\* registration nor an open journal.
RegisteredIffStreaming ==
    status = "running" =>
        /\ \A c \in Calls :
               MonitorTag(c) \in epoll <=>
                   (monitor[c].journal = "open" /\ call[c].state = "streaming")
        /\ \A c \in Calls :
               (call[c].state = "done") =>
                   (MonitorTag(c) \notin epoll /\ monitor[c].journal # "open")
        /\ (last.op = "monitor" /\ last.r < 0) =>
               (MonitorTag(last.c) \notin epoll /\ monitor[last.c].journal # "open")

\* a call that was not to stream has been answered, its journal closed again
SingleReplyCallDone ==
    /\ status = "running"
    /\ last.op = "monitor" /\ last.sent /\ last.r = 0
    /\ call[last.c].state = "done"
    /\ monitor[last.c].journal = "closed"

\* what one monitor_free does: it drops the call reference and frees the
\* memory, and if the journal was opened it first removes the journal fd
\* from the epoll and closes the journal
Releases ==
    {<<"call_unref", "free">>,
     <<"epoll_del", "journal_close", "call_unref", "free">>}

\* C15: a call has at most one Monitor; it is freed at most once: not while
\* the callback of an established stream is armed, and once, by the scope
\* exit of the handler, when the handler failed or the call was not to
\* stream, and once, by the callback, when the client has disconnected; the
\* free releases the one call reference, the journal and the registration
\* that were acquired.
MonitorFreedOnce ==
    \A c \in Calls :
        /\ hist[c].news = (IF call[c].state = "none" THEN 0 ELSE 1)
        /\ hist[c].frees <= hist[c].news
        /\ hist[c].dels <= hist[c].frees
        /\ call[c].state = "none" => monitor[c].alive = "none"
        /\ call[c].callback <=> call[c].state = "streaming"
        /\ call[c].state = "streaming" =>
               /\ hist[c].frees = 0
               /\ monitor[c].alive = "live"
               /\ call[c].refs = 1
        /\ call[c].state \in {"done", "closed"} =>
               /\ hist[c].frees = 1
               /\ monitor[c].alive = "freed"
               /\ call[c].refs = 0
               /\ monitor[c].journal # "open"
               /\ MonitorTag(c) \notin epoll
               /\ hist[c].teardown \in Releases
               /\ (monitor[c].journal = "null") <=> (hist[c].teardown = <<"call_unref", "free">>)
               /\ (monitor[c].journal = "null") => hist[c].dels = 0
        /\ (last.op \in {"monitor", "disconnect"} /\ last.c = c) =>
               hist[c].dels = (IF call[c].state = "streaming" \/ last.fail \in {"open", "add"}
                               THEN 0 ELSE 1)

\* the callback has freed the Monitor of a stream
FreedByCallback ==
    /\ last.op = "disconnect"
    /\ call[last.c].state = "closed"
    /\ hist[last.c].frees = 1

\* the calls of journal_read_next_entry that build the entry of a record
TranslateFails == {"entry_cursor", "realtime", "gmtime", "message", "priority"}

\* C16: a read-batch in which the entry of a record cannot be built ends
\* with Panic; no frame is sent, none of the batch's records is delivered,
\* and the stored cursor is what it was before the batch.
FailedBatchSendsNothing ==
    (last.op \in {"monitor", "dispatch"} /\ ~last.uaf /\ last.fail \in TranslateFails) =>
        /\ last.ran
        /\ last.r = -VARLINK_ERROR_PANIC
        /\ ~last.sent
        /\ last.batch = <<>>
        /\ call[last.c].delivered = last.prev
        /\ monitor[last.c].cursor = last.cur

\* a batch failed behind a record it had read, with a cursor stored
BatchFailedBehindARecord ==
    /\ Dispatched /\ last.fail \in TranslateFails
    /\ last.event = "SD_JOURNAL_INVALIDATE"
    /\ last.cur # 0
    /\ monitor[last.c].loc.at > last.cur

\* the handler a step ran belongs to the tag of its event
HandlerOfTag ==
    /\ last.op \in {"monitor", "disconnect", "service_error"} => last.tag = ServiceTag
    /\ last.op = "signal" => last.tag = SignalTag
    /\ last.op = "dispatch" =>
           (~last.uaf /\ last.c \in Calls /\ last.tag = MonitorTag(last.c))

\* C17: a step of the loop runs the one handler of one event whose tag is
\* registered: the service's, the signal's or the dispatch of one Monitor,
\* which leaves the other Monitors alone; the registrations change only in
\* such a step.
OneSourcePerWakeup ==
    [][/\ last'.op # "none" => (last'.tag \in epoll /\ HandlerOfTag')
       /\ last'.op = "dispatch" =>
              /\ epoll' = epoll
              /\ \A d \in Calls \ {last'.c} : monitor'[d] = monitor[d] /\ call'[d] = call[d]
       /\ epoll' # epoll => last'.op \in {"monitor", "disconnect"}]_vars

\* a Monitor was dispatched while the service and the signalfd were registered
DispatchAmongThree ==
    /\ Dispatched
    /\ {ServiceTag, SignalTag, MonitorTag(last.c)} \subseteq epoll

SignalEndsTheLoop ==
    /\ [](last.op = "signal" =>
              /\ status = "exited"
              /\ exitcode = (IF last.r \in {SIGTERM, SIGINT} THEN EXIT_SUCCESS ELSE ERROR_PANIC))
    /\ [][last.op # "signal"]_vars

\* SIGINT ended the loop while a session was streaming
SignalWhileStreaming ==
    /\ last.op = "signal" /\ last.r = SIGINT
    /\ exitcode = EXIT_SUCCESS
    /\ \E c \in Calls : call[c].state = "streaming"

====
